---- MODULE Spec2Model ----
(***************************************************************************)
(* State-machine model of src/native/midi2-native.cc, the Node.js native   *)
(* module that exposes MIDI output/input enumeration, open, close and UMP  *)
(* send over WinMM, CoreMIDI or ALSA.  The backend is selected by the      *)
(* preprocessor, so the model carries it as a variable fixed by Init.      *)
(*                                                                         *)
(* Program state: midiOutputs, midiInputs, and on macOS midiClient,        *)
(* outputPort, initialized.  Environment state: the devices the OS         *)
(* presents, the native handles that are allocated, the native clients and *)
(* ports that exist.  Observation state: the most recent event with the    *)
(* native calls it made (last), the Session state a caller is entitled to  *)
(* assume from the calls that returned normally (session), and the         *)
(* progress of the open/send/close scenario (scenB).                       *)
(***************************************************************************)
EXTENDS Integers, Sequences, FiniteSets, TLC

\* Bounds of the model.
MaxDevices == 2
MaxInputs == 1
MaxHandles == 2
MaxClients == 2
MaxCount == 2

\* nullptr, and the value of an unset MIDIClientRef / MIDIPortRef.
Null == 0
\* Native status codes.
MMSYSERR_NOERROR == 0
MMSYSERR_ERROR == 1
noErr == 0
\* maxPayload of GetCapabilities.
MaxPayload == 65536

Platforms == {"Windows", "macOS", "Linux", "Unknown"}
\* An OS device is identified by its display name, a number 1..MaxDevices.
Devices == 1 .. MaxDevices
\* The devices that are MIDI sources.
InputDevices == 1 .. MaxInputs
\* A native handle value: HMIDIOUT, snd_rawmidi_t*, or the address of the
\* heap cell that holds a MIDIEndpointRef.
Handles == 1 .. MaxHandles
\* Device indices a caller may pass: in range, and one past the largest catalog.
Indices == 0 .. MaxDevices
\* The name of an entry whose name buffer was never written.
Uninit == 0
\* What a name buffer may read as: a device's name, or text that is none (0).
NameValues == 0 .. MaxDevices

\* A UMP first word from its message-type nibble and its low 28 bits.
UmpWord(mt, rest) == mt * (2 ^ 28) + rest
\* Packets a caller sends: the MIDI1 channel-voice note-on 0x20903C40 (one word)
\* and the first word 0x40903C00 of a MIDI2 channel-voice note-on (two words).
NoteOn == UmpWord(2, 9452608)
Words == {NoteOn, UmpWord(4, 9452544)}

VARIABLES
  platform,       \* the backend compiled in
  osOutputs,      \* the OS's MIDI destinations, in OS order
  osInputs,       \* the OS's MIDI sources, in OS order
  nativeHandles,  \* handle -> the device it refers to, 0 when not allocated
  macClients,     \* native clients created and not disposed
  macPorts,       \* native output ports created and not disposed
  midiOutputs,    \* static std::vector<MIDIDevice> midiOutputs
  midiInputs,     \* static std::vector<MIDIDevice> midiInputs
  midiClient,     \* MacMIDIManager::midiClient
  outputPort,     \* MacMIDIManager::outputPort
  initialized,    \* MacMIDIManager::initialized
  crashed,        \* the process has been terminated
  session,        \* index -> "Open" | "Closed", as the calls' returns imply
  last,           \* the most recent event and the native calls it made
  scenB           \* progress through enumerate; open(0); send(0,w); close(0)

vars == <<platform, osOutputs, osInputs, nativeHandles, macClients, macPorts,
          midiOutputs, midiInputs, midiClient, outputPort, initialized,
          crashed, session, last, scenB>>

----------------------------------------------------------------------------
\* Helpers.

RECURSIVE SortedSeq(_)
SortedSeq(S) ==
  IF S = {} THEN <<>>
  ELSE LET m == CHOOSE x \in S : \A y \in S : x <= y
       IN <<m>> \o SortedSeq(S \ {m})

Range(s) == {s[i] : i \in 1 .. Len(s)}

\* Handle values not allocated, lowest first.
FreeHandles(h) == SortedSeq({x \in Handles : h[x] = 0})

\* h with the first n free handles allocated to the devices target[1..n].
Allocate(h, target) ==
  LET free == FreeHandles(h)
  IN [x \in Handles |->
        IF \E j \in 1 .. Len(target) : free[j] = x
        THEN target[CHOOSE j \in 1 .. Len(target) : free[j] = x]
        ELSE h[x]]

\* The bytes of a 32-bit word, least significant first: the order the shifts of
\* SendUmp do not produce.
BytesLE(w) ==
  << w % 256, (w \div (2 ^ 8)) % 256, (w \div (2 ^ 16)) % 256, (w \div (2 ^ 24)) % 256 >>

\* The bytes of a 32-bit word, most significant first: data[0..3] of SendUmp.
BytesBE(w) ==
  << (w \div (2 ^ 24)) % 256, (w \div (2 ^ 16)) % 256, (w \div (2 ^ 8)) % 256, w % 256 >>

\* The word that four bytes spell, most significant first.
WordBE(b) == ((b[1] * 256 + b[2]) * 256 + b[3]) * 256 + b[4]

\* struct MIDIDevice.
MIDIDevice(index, name, isInput, handle) ==
  [index |-> index, name |-> name, isInput |-> isInput, handle |-> handle]

\* The record of one event: the operation, its arguments, the error code it threw
\* ("ok" when it returned normally), the value it returned, and the calls it made
\* on the backend class (driverSends) and on the OS (nativeSends, nativeOpens,
\* nativeCloses), with the per-device queries that failed (lookupFailed).  word is
\* the packet of a sendUmp and the payload length of a sendSysEx.  repeat
\* is set by Observe: the event is a close and the event before it was a close of
\* the same index.
Event(op, index, word, result, value, driverSends, nativeSends, nativeOpens, nativeCloses, lookupFailed) ==
  [op |-> op, index |-> index, word |-> word, result |-> result, value |-> value,
   driverSends |-> driverSends, nativeSends |-> nativeSends,
   nativeOpens |-> nativeOpens, nativeCloses |-> nativeCloses,
   lookupFailed |-> lookupFailed, repeat |-> FALSE]

\* An event that made no backend call.
Plain(op, index, word, result, value) ==
  Event(op, index, word, result, value, <<>>, <<>>, <<>>, <<>>, {})

----------------------------------------------------------------------------
\* macOS: MacMIDIManager::ensureInitialized.  clientOk and portOk are the
\* outcomes of MIDIClientCreate and MIDIOutputPortCreate; the OS refuses a
\* client or port beyond MaxClients.

MacUnchanged ==
  [ok |-> midiClient # Null, midiClient |-> midiClient, outputPort |-> outputPort,
   initialized |-> initialized, macClients |-> macClients, macPorts |-> macPorts]

\* The outcomes of the native create calls that matter: none once initialized.
InitChoices == IF initialized THEN {TRUE} ELSE BOOLEAN

ensureInitialized(clientOk, portOk) ==
  IF initialized THEN MacUnchanged
  ELSE IF ~clientOk \/ macClients >= MaxClients
       THEN [MacUnchanged EXCEPT !.ok = FALSE]
  ELSE IF ~portOk \/ macPorts >= MaxClients
       THEN [MacUnchanged EXCEPT !.ok = FALSE, !.midiClient = macClients + 1,
                                 !.macClients = macClients + 1]
  ELSE [ok |-> TRUE, midiClient |-> macClients + 1, outputPort |-> macPorts + 1,
        initialized |-> TRUE, macClients |-> macClients + 1,
        macPorts |-> macPorts + 1]

----------------------------------------------------------------------------
\* Enumeration.  Each backend's enumerate is a function of the OS's device
\* list and of the outcomes of the native queries; EnumOutcomes collects the
\* results over all outcomes.

\* WindowsMIDIManager::enumerateOutputs / enumerateInputs: capsOk[i] is whether
\* midiOutGetDevCaps(i-1) returned MMSYSERR_NOERROR.
WindowsEnumerate(os, capsOk, isInput) ==
  LET all == [i \in 1 .. Len(os) |-> MIDIDevice(i - 1, os[i], isInput, Null)]
  IN SelectSeq(all, LAMBDA e : capsOk[e.index + 1])

\* MacMIDIManager::enumerateOutputs / enumerateInputs after ensureInitialized:
\* every entry is pushed; name[i] is what device.name holds (Uninit where the
\* name lookup gave no string), cells[i] the address new returned.
MacEnumerate(os, name, isInput, cells) ==
  [i \in 1 .. Len(os) |-> MIDIDevice(i - 1, name[i], isInput, cells[i])]

\* The positions of os at which ok holds, in order.
Hits(os, ok) == SelectSeq([i \in 1 .. Len(os) |-> i], LAMBDA i : ok[i])

\* ALSAMIDIManager::enumerateOutputs / enumerateInputs: openOk[i] is whether
\* snd_rawmidi_open succeeded at the i-th (card, device) pair, target[i] the
\* device the handle it returned refers to (the call names no device).
LinuxEnumerate(os, openOk, target, isInput, free) ==
  LET hits == Hits(os, openOk)
  IN [j \in 1 .. Len(hits) |->
        MIDIDevice(j - 1, target[hits[j]], isInput, free[j])]

Outcome(catalog, handles, init, failed, opens) ==
  [catalog |-> catalog, handles |-> handles, init |-> init,
   lookupFailed |-> failed, nativeOpens |-> opens]

\* The devices of os whose query failed.
Failed(os, ok) == {os[i] : i \in {j \in 1 .. Len(os) : ~ok[j]}}

WindowsOutcomes(os, isInput) ==
  { Outcome(WindowsEnumerate(os, capsOk, isInput), nativeHandles, MacUnchanged,
            Failed(os, capsOk), <<>>) :
      capsOk \in [1 .. Len(os) -> BOOLEAN] }

\* The heap is bounded by MaxHandles cells: an enumeration that needs more
\* cells than are free is not taken.
MacOutcomes(os, isInput) ==
  LET free == FreeHandles(nativeHandles)
      Listed(init) ==
        { Outcome(MacEnumerate(os, [i \in 1 .. Len(os) |->
                                      IF nameOk[i] THEN os[i] ELSE Uninit],
                               isInput, free),
                  Allocate(nativeHandles, os), init, Failed(os, nameOk), <<>>) :
            nameOk \in [1 .. Len(os) -> BOOLEAN] }
  IN UNION { LET init == ensureInitialized(c, p)
             IN IF ~init.ok
                THEN { Outcome(<<>>, nativeHandles, init, {}, <<>>) }
                ELSE IF Len(free) < Len(os) THEN {}
                ELSE Listed(init)
           : c \in InitChoices, p \in InitChoices }

\* The handle each snd_rawmidi_open call of the loop returned, Null where it failed.
LinuxOpens(os, openOk, free) ==
  [i \in 1 .. Len(os) |->
     IF openOk[i] THEN free[Cardinality({j \in 1 .. i : openOk[j]})] ELSE Null]

\* The OS grants no more handles than are free.
LinuxOutcomes(os, isInput) ==
  LET free == FreeHandles(nativeHandles)
  IN { LET hits == Hits(os, pr[1])
       IN Outcome(LinuxEnumerate(os, pr[1], pr[2], isInput, free),
                  Allocate(nativeHandles,
                           [j \in 1 .. Len(hits) |-> pr[2][hits[j]]]),
                  MacUnchanged, Failed(os, pr[1]), LinuxOpens(os, pr[1], free)) :
         pr \in { q \in [1 .. Len(os) -> BOOLEAN] \X [1 .. Len(os) -> Range(os)] :
                    /\ Len(Hits(os, q[1])) <= Len(free)
                    /\ \A i \in 1 .. Len(os) : ~q[1][i] => q[2][i] = os[1] } }

\* The enumerate call GetUmpOutputs / GetUmpInputs makes under #ifdef; with no
\* backend compiled in nothing is called and the catalog stays as it is.
EnumOutcomes(os, isInput, current) ==
  CASE platform = "Windows" -> WindowsOutcomes(os, isInput)
    [] platform = "macOS" -> MacOutcomes(os, isInput)
    [] platform = "Linux" -> LinuxOutcomes(os, isInput)
    [] OTHER -> { Outcome(current, nativeHandles, MacUnchanged, {}, <<>>) }

\* The arrays GetUmpOutputs / GetUmpInputs may return: {index, name} per entry.
\* Reading a name buffer that was never written yields any text.
Listings(catalog) ==
  { [i \in 1 .. Len(catalog) |-> [index |-> catalog[i].index, name |-> read[i]]] :
      read \in { f \in [1 .. Len(catalog) -> NameValues] :
                   \A i \in 1 .. Len(catalog) :
                     catalog[i].name # Uninit => f[i] = catalog[i].name } }

----------------------------------------------------------------------------
\* Observers.

NoArg == Null - 1

\* The Session state a caller may assume: Open once openUmpOutput(k) has
\* returned normally, Closed once closeUmpOutput(k) has been called.
SessionAfter(ev) ==
  IF ev.op = "openUmpOutput" /\ ev.result = "ok"
  THEN [session EXCEPT ![ev.index] = "Open"]
  ELSE IF ev.op = "closeUmpOutput" /\ ev.index # NoArg
  THEN [session EXCEPT ![ev.index] = "Closed"]
  ELSE session

\* A MIDI1 channel-voice word: message type 2.
IsMidi1ChannelVoice(w) == w \div (2 ^ 28) = 2

\* Progress through the scenario: getUmpOutputs; openUmpOutput(0) returning
\* normally; sendUmp(0, w) with w a MIDI1 channel-voice word; closeUmpOutput(0),
\* each call directly after the other, with the sends made on the way.
ScenAfter(ev) ==
  LET none == [stage |-> 0, word |-> 0, driverSends |-> <<>>, nativeSends |-> <<>>]
  IN CASE ev.op = "hotplug" -> scenB
       [] ev.op = "getUmpOutputs" -> [none EXCEPT !.stage = 1]
       [] scenB.stage = 1 /\ ev.op = "openUmpOutput" /\ ev.index = 0 /\ ev.result = "ok"
            -> [scenB EXCEPT !.stage = 2]
       [] scenB.stage = 2 /\ ev.op = "sendUmp" /\ ev.index = 0
          /\ IsMidi1ChannelVoice(ev.word)
            -> [stage |-> 3, word |-> ev.word, driverSends |-> ev.driverSends,
                nativeSends |-> ev.nativeSends]
       [] scenB.stage = 3 /\ ev.op = "closeUmpOutput" /\ ev.index = 0
            -> [scenB EXCEPT !.stage = 4]
       [] OTHER -> none

Observe(ev) ==
  /\ last' = [ev EXCEPT !.repeat = /\ ev.op = "closeUmpOutput"
                                  /\ last.op = ev.op
                                  /\ last.index = ev.index]
  /\ session' = SessionAfter(ev)
  /\ scenB' = ScenAfter(ev)

----------------------------------------------------------------------------
\* The state after module load.

InjectiveSeqs(D) ==
  { s \in UNION { [1 .. n -> D] : n \in 0 .. Cardinality(D) } :
      \A i, j \in 1 .. Len(s) : i # j => s[i] # s[j] }

Init ==
  /\ platform \in Platforms
  /\ osOutputs \in InjectiveSeqs(Devices)
  /\ osInputs \in InjectiveSeqs(InputDevices)
  /\ nativeHandles = [h \in Handles |-> 0]
  /\ macClients = 0
  /\ macPorts = 0
  /\ midiOutputs = <<>>
  /\ midiInputs = <<>>
  /\ midiClient = Null
  /\ outputPort = Null
  /\ initialized = FALSE
  /\ crashed = FALSE
  /\ session = [k \in Indices |-> "Closed"]
  /\ last = Plain("load", NoArg, 0, "ok", <<>>)
  /\ scenB = [stage |-> 0, word |-> 0, driverSends |-> <<>>, nativeSends |-> <<>>]

SetMac(init) ==
  /\ midiClient' = init.midiClient
  /\ outputPort' = init.outputPort
  /\ initialized' = init.initialized
  /\ macClients' = init.macClients
  /\ macPorts' = init.macPorts

MacSame == UNCHANGED <<midiClient, outputPort, initialized, macClients, macPorts>>
OsSame == UNCHANGED <<platform, osOutputs, osInputs>>

----------------------------------------------------------------------------
\* napi_value GetUmpOutputs / GetUmpInputs.

GetUmpOutputs ==
  /\ ~crashed
  /\ \E o \in EnumOutcomes(osOutputs, 0, midiOutputs) :
     \E listing \in Listings(o.catalog) :
       /\ midiOutputs' = o.catalog
       /\ nativeHandles' = o.handles
       /\ SetMac(o.init)
       /\ Observe(Event("getUmpOutputs", NoArg, 0, "ok", listing,
                        <<>>, <<>>, o.nativeOpens, <<>>, o.lookupFailed))
  /\ UNCHANGED <<midiInputs, crashed>>
  /\ OsSame

GetUmpInputs ==
  /\ ~crashed
  /\ \E o \in EnumOutcomes(osInputs, 1, midiInputs) :
     \E listing \in Listings(o.catalog) :
       /\ midiInputs' = o.catalog
       /\ nativeHandles' = o.handles
       /\ SetMac(o.init)
       /\ Observe(Event("getUmpInputs", NoArg, 0, "ok", listing,
                        <<>>, <<>>, o.nativeOpens, <<>>, o.lookupFailed))
  /\ UNCHANGED <<midiOutputs, crashed>>
  /\ OsSame

----------------------------------------------------------------------------
\* napi_value OpenUmpOutput.

\* A range check that lets the index just past the catalog through.
OpenOutOfRangeOffByOne(deviceIndex) == deviceIndex > Len(midiOutputs)

\* The range check of OpenUmpOutput: deviceIndex >= midiOutputs.size().
OpenOutOfRange(deviceIndex) == deviceIndex >= Len(midiOutputs)

\* catalog[deviceIndex].handle = handle.
SetHandle(catalog, deviceIndex, handle) ==
  [i \in 1 .. Len(catalog) |->
     IF i = deviceIndex + 1 THEN [catalog[i] EXCEPT !.handle = handle] ELSE catalog[i]]

\* WindowsMIDIManager::openOutput: midiOutOpen on device id deviceIndex.  granted
\* is whether the OS grants the open; it grants none for an id it does not know
\* or when no handle is free.
openOutput(deviceIndex, granted) ==
  LET free == FreeHandles(nativeHandles)
  IN IF granted /\ deviceIndex < Len(osOutputs) /\ Len(free) > 0
     THEN [ret |-> MMSYSERR_NOERROR, handle |-> free[1],
           handles |-> [nativeHandles EXCEPT ![free[1]] = osOutputs[deviceIndex + 1]]]
     ELSE [ret |-> MMSYSERR_ERROR, handle |-> Null, handles |-> nativeHandles]

OpenUmpOutput(argc, deviceIndex) ==
  /\ ~crashed
  /\ IF argc < 1
     THEN /\ Observe(Plain("openUmpOutput", NoArg, 0, "INVALID_ARGS", <<>>))
          /\ UNCHANGED <<midiOutputs, nativeHandles>>
     ELSE IF OpenOutOfRange(deviceIndex)
     THEN /\ Observe(Plain("openUmpOutput", deviceIndex, 0, "INVALID_DEVICE", <<>>))
          /\ UNCHANGED <<midiOutputs, nativeHandles>>
     ELSE IF platform = "Windows"
     THEN \E granted \in BOOLEAN :
            LET r == openOutput(deviceIndex, granted)
            IN IF r.ret # MMSYSERR_NOERROR
               THEN /\ Observe(Event("openUmpOutput", deviceIndex, 0, "OPEN_FAILED",
                                     <<>>, <<>>, <<>>, <<Null>>, <<>>, {}))
                    /\ UNCHANGED <<midiOutputs, nativeHandles>>
               ELSE /\ midiOutputs' = SetHandle(midiOutputs, deviceIndex, r.handle)
                    /\ nativeHandles' = r.handles
                    /\ Observe(Event("openUmpOutput", deviceIndex, 0, "ok",
                                     [deviceIndex |-> deviceIndex], <<>>, <<>>,
                                     <<r.handle>>, <<>>, {}))
     ELSE /\ Observe(Plain("openUmpOutput", deviceIndex, 0, "ok",
                           [deviceIndex |-> deviceIndex]))
          /\ UNCHANGED <<midiOutputs, nativeHandles>>
  /\ UNCHANGED <<midiInputs, crashed>>
  /\ MacSame
  /\ OsSame

----------------------------------------------------------------------------
\* napi_value CloseUmpOutput.

\* A close that leaves the handle recorded.
ClearHandleForgotten(catalog, deviceIndex) == catalog

\* midiOutputs[deviceIndex].handle = nullptr.
ClearHandle(catalog, deviceIndex) == SetHandle(catalog, deviceIndex, Null)

\* midiOutClose: the handle is released.
midiOutClose(handle) == [nativeHandles EXCEPT ![handle] = 0]

CloseUmpOutput(argc, deviceIndex) ==
  /\ ~crashed
  /\ IF argc < 1
     THEN /\ Observe(Plain("closeUmpOutput", NoArg, 0, "ok", <<>>))
          /\ UNCHANGED <<midiOutputs, nativeHandles>>
     ELSE IF deviceIndex < Len(midiOutputs) /\ midiOutputs[deviceIndex + 1].handle # Null
     THEN LET handle == midiOutputs[deviceIndex + 1].handle
          IN /\ midiOutputs' = ClearHandle(midiOutputs, deviceIndex)
             /\ IF platform = "Windows"
                THEN /\ nativeHandles' = midiOutClose(handle)
                     /\ Observe(Event("closeUmpOutput", deviceIndex, 0, "ok", <<>>,
                                      <<>>, <<>>, <<>>, <<handle>>, {}))
                ELSE /\ UNCHANGED nativeHandles
                     /\ Observe(Plain("closeUmpOutput", deviceIndex, 0, "ok", <<>>))
     ELSE /\ Observe(Plain("closeUmpOutput", deviceIndex, 0, "ok", <<>>))
          /\ UNCHANGED <<midiOutputs, nativeHandles>>
  /\ UNCHANGED <<midiInputs, crashed>>
  /\ MacSame
  /\ OsSame

----------------------------------------------------------------------------
\* napi_value SendUmp and the backends' send.

NativeSend(fn, handle, data, ret) ==
  [fn |-> fn, handle |-> handle, data |-> data, ret |-> ret]

DriverSend(fn, handle, data, count, ret) ==
  [fn |-> fn, handle |-> handle, data |-> data, count |-> count, ret |-> ret]

\* A buffer that holds the bytes of the first word only.
FlattenFirst(ss) == IF ss = <<>> THEN <<>> ELSE Head(ss)

\* buffer[i * 4 + k] over all words i: the byte groups laid end to end.
RECURSIVE Flatten(_)
Flatten(ss) == IF ss = <<>> THEN <<>> ELSE Head(ss) \o Flatten(Tail(ss))

\* WindowsMIDIManager::sendData; nativeRet is what midiOutShortMsg returns.
sendData(handle, data, length, nativeRet) ==
  IF length = 3
  THEN [ret |-> nativeRet,
        native |-> <<NativeSend("midiOutShortMsg", handle,
                                data[1] + data[2] * 256 + data[3] * 65536, nativeRet)>>]
  ELSE [ret |-> MMSYSERR_ERROR, native |-> <<>>]

\* MacMIDIManager::sendUMP; init is ensureInitialized's outcome, nativeRet what
\* MIDISend returns.
MacSendUMP(dest, packet, count, init, nativeRet) ==
  IF ~init.ok
  THEN [ret |-> noErr - 1, native |-> <<>>]
  ELSE [ret |-> nativeRet,
        native |-> <<NativeSend("MIDISend", dest,
                                [i \in 1 .. count |-> BytesBE(packet[i])], nativeRet)>>]

\* ALSAMIDIManager::sendUMP; nativeRet is what snd_rawmidi_write returns.
LinuxSendUMP(handle, packet, count, nativeRet) ==
  [ret |-> nativeRet,
   native |-> <<NativeSend("snd_rawmidi_write", handle,
                           Flatten([i \in 1 .. count |-> BytesBE(packet[i])]),
                           nativeRet)>>]

\* What the native calls may return.
MMResults == {MMSYSERR_NOERROR, MMSYSERR_ERROR}
OSStatuses == {noErr, noErr - 1}
\* snd_rawmidi_write: an error, a short write or the whole buffer.
WriteResults(length) == {0 - 1, length \div 2, length}

\* The range check of SendUmp.
SendOutOfRange(deviceIndex) == deviceIndex >= Len(midiOutputs)

SendUmp(argc, deviceIndex, packet) ==
  /\ ~crashed
  /\ IF argc < 2
     THEN /\ Observe(Plain("sendUmp", NoArg, 0, "INVALID_ARGS", <<>>))
          /\ UNCHANGED crashed
          /\ MacSame
     ELSE IF SendOutOfRange(deviceIndex)
     THEN /\ Observe(Plain("sendUmp", deviceIndex, packet, "INVALID_DEVICE", <<>>))
          /\ UNCHANGED crashed
          /\ MacSame
     ELSE LET handle == midiOutputs[deviceIndex + 1].handle
          IN CASE platform = "Windows" ->
                    \E nativeRet \in MMResults :
                      LET data == BytesBE(packet)
                          r == sendData(handle, data, 4, nativeRet)
                      IN /\ Observe(Event("sendUmp", deviceIndex, packet, "ok", <<>>,
                                          <<DriverSend("sendData", handle, data, 4, r.ret)>>,
                                          r.native, <<>>, <<>>, {}))
                         /\ UNCHANGED crashed
                         /\ MacSame
               [] platform = "macOS" ->
                    \* *(MIDIEndpointRef*)handle: with a null handle the read is
                    \* undefined; the process dies or reads some value.
                    \/ /\ handle = Null
                       /\ crashed' = TRUE
                       /\ Observe(Plain("sendUmp", deviceIndex, packet, "crash", <<>>))
                       /\ MacSame
                    \/ \E dest \in IF handle = Null THEN 0 .. MaxDevices
                                   ELSE {nativeHandles[handle]} :
                       \E c \in InitChoices, p \in InitChoices, nativeRet \in OSStatuses :
                         LET init == ensureInitialized(c, p)
                             r == MacSendUMP(dest, <<packet>>, 1, init, nativeRet)
                         IN /\ SetMac(init)
                            /\ Observe(Event("sendUmp", deviceIndex, packet, "ok", <<>>,
                                             <<DriverSend("sendUMP", dest, <<packet>>, 1, r.ret)>>,
                                             r.native, <<>>, <<>>, {}))
                            /\ UNCHANGED crashed
               [] platform = "Linux" ->
                    \* snd_rawmidi_write dereferences its handle.
                    IF handle = Null
                    THEN /\ crashed' = TRUE
                         /\ Observe(Event("sendUmp", deviceIndex, packet, "crash", <<>>,
                                          <<DriverSend("sendUMP", handle, <<packet>>, 1, 0 - 1)>>,
                                          LinuxSendUMP(handle, <<packet>>, 1, 0 - 1).native,
                                          <<>>, <<>>, {}))
                         /\ MacSame
                    ELSE \E nativeRet \in WriteResults(4) :
                           LET r == LinuxSendUMP(handle, <<packet>>, 1, nativeRet)
                           IN /\ Observe(Event("sendUmp", deviceIndex, packet, "ok", <<>>,
                                               <<DriverSend("sendUMP", handle, <<packet>>, 1, r.ret)>>,
                                               r.native, <<>>, <<>>, {}))
                              /\ UNCHANGED crashed
                              /\ MacSame
               [] OTHER ->
                    /\ Observe(Plain("sendUmp", deviceIndex, packet, "ok", <<>>))
                    /\ UNCHANGED crashed
                    /\ MacSame
  /\ UNCHANGED <<midiOutputs, midiInputs, nativeHandles>>
  /\ OsSame

----------------------------------------------------------------------------
\* napi_value OnUmpInput, SendSysEx, GetCapabilities.

ProgramSame ==
  /\ UNCHANGED <<midiOutputs, midiInputs, nativeHandles, crashed>>
  /\ MacSame
  /\ OsSame

OnUmpInput ==
  /\ ~crashed
  /\ Observe(Plain("onUmpInput", NoArg, 0, "ok", <<>>))
  /\ ProgramSame

\* SendSysEx reads none of its arguments: whatever index and payload the caller
\* passes (the payload is given by its length, recorded in the event's word
\* field), it returns undefined.
SendSysEx(deviceIndex, payloadLength) ==
  /\ ~crashed
  /\ Observe(Plain("sendSysEx", deviceIndex, payloadLength, "ok", <<>>))
  /\ ProgramSame

\* platform_str under #ifdef.
PlatformStr == platform

\* A descriptor whose payload limit follows the catalog.
CapabilitiesByCatalog ==
  [platform |-> PlatformStr, midi2Support |-> TRUE, umpSupport |-> TRUE,
   nativeOSSupport |-> TRUE, maxPayload |-> 65536 * (1 + Len(midiOutputs))]

Capabilities ==
  [platform |-> PlatformStr, midi2Support |-> TRUE, umpSupport |-> TRUE,
   nativeOSSupport |-> TRUE, maxPayload |-> 65536]

GetCapabilities ==
  /\ ~crashed
  /\ Observe(Plain("getCapabilities", NoArg, 0, "ok", Capabilities))
  /\ ProgramSame

----------------------------------------------------------------------------
\* The environment: a device is plugged in or removed.

Remove(s, i) == [j \in 1 .. Len(s) - 1 |-> IF j < i THEN s[j] ELSE s[j + 1]]

\* MIDI destinations come and go; the sources present at start stay.
Hotplug ==
  /\ ~crashed
  /\ \/ \E d \in Devices \ Range(osOutputs) : osOutputs' = Append(osOutputs, d)
     \/ \E i \in 1 .. Len(osOutputs) : osOutputs' = Remove(osOutputs, i)
  /\ Observe(Plain("hotplug", NoArg, 0, "ok", <<>>))
  /\ UNCHANGED <<platform, osInputs, midiOutputs, midiInputs, nativeHandles, crashed>>
  /\ MacSame

\* What a caller passes: no argument (argc short by one), or a device index.
Args == {<<0, 0>>} \cup {<<1, k>> : k \in Indices}

\* The SysEx payloads a caller passes, by length: one byte, and one byte more
\* than the maxPayload GetCapabilities advertises.
PayloadLengths == {1, MaxPayload + 1}

Next ==
  \/ GetUmpOutputs
  \/ GetUmpInputs
  \/ \E a \in Args : OpenUmpOutput(a[1], a[2])
  \/ \E a \in Args : CloseUmpOutput(a[1], a[2])
  \/ \E a \in Args, packet \in Words : SendUmp(a[1] + 1, a[2], packet)
  \/ OnUmpInput
  \/ \E n \in PayloadLengths : SendSysEx(0, n)
  \/ GetCapabilities
  \/ Hotplug

Spec == Init /\ [][Next]_vars

----------------------------------------------------------------------------
\* Vocabulary of the properties.

\* The Packet Codec's wordCount: the number of words the message type of a first
\* word calls for, 0 for a type the table does not list.
WordCount(firstWord) ==
  LET mt == firstWord \div (2 ^ 28)
  IN CASE mt \in {0, 1, 2} -> 1
       [] mt \in {3, 4} -> 2
       [] mt \in {5, 13, 15} -> 4
       [] OTHER -> 0

\* The words one invocation of a backend's send was handed.
CarriedWords(ds) ==
  IF ds.fn = "sendData"
  THEN [i \in 1 .. (ds.count \div 4) |-> WordBE(SubSeq(ds.data, 4 * i - 3, 4 * i))]
  ELSE SubSeq(ds.data, 1, ds.count)

\* The backend's send reported a failure.
DriverFailed(ds) ==
  CASE ds.fn = "sendData" -> ds.ret # MMSYSERR_NOERROR
    [] platform = "macOS" -> ds.ret # noErr
    [] OTHER -> ds.ret < 0

\* The call threw an error to its caller.
Threw(ev) == ev.result \notin {"ok", "crash"}

\* The step is a call of op on index k.
Calls(op, k) == last'.op = op /\ last'.index = k

----------------------------------------------------------------------------
\* C1: openOutput(k) while a live Session for k exists fails, makes no native
\* open and leaves the Session and the handle recorded for k as they were.
C1_SecondOpenFails ==
  [][\A k \in Indices :
       (session[k] = "Open" /\ Calls("openUmpOutput", k))
         => /\ Threw(last')
            /\ last'.nativeOpens = <<>>
            /\ midiOutputs' = midiOutputs
            /\ session'[k] = "Open"]_vars

\* C2: a sendPacket on an index whose Session is not Open fails, invokes no
\* backend send, and hands no null handle to the backend.
C2_SendNeedsOpenSession ==
  (last.op = "sendUmp" /\ last.index # NoArg /\ session[last.index] # "Open")
    => /\ Threw(last)
       /\ last.driverSends = <<>>
       /\ last.nativeSends = <<>>

\* C3: closeOutput(k) directly after closeOutput(k) changes nothing and raises no
\* error, for every k; and every backend close releases a handle that was open
\* until then, so no open is closed twice.
C3_CloseIdempotent ==
  [][\A k \in Indices :
       Calls("closeUmpOutput", k)
         => /\ last'.result = "ok"
            /\ Len(last'.nativeCloses) <= 1
            /\ \A i \in 1 .. Len(last'.nativeCloses) :
                 /\ nativeHandles[last'.nativeCloses[i]] # 0
                 /\ nativeHandles'[last'.nativeCloses[i]] = 0
            /\ (last.op = "closeUmpOutput" /\ last.index = k)
                 => /\ last'.nativeCloses = <<>>
                    /\ UNCHANGED <<midiOutputs, midiInputs, nativeHandles, session,
                                   midiClient, outputPort, initialized, crashed>>]_vars

\* C3's case: on Windows, closeUmpOutput(0) has been called twice in a row on an
\* index that is in range.
C3_Witness ==
  /\ platform = "Windows"
  /\ last.op = "closeUmpOutput" /\ last.index = 0 /\ last.repeat
  /\ Len(midiOutputs) > 0
  /\ midiOutputs[1].handle = Null

\* C4: closeOutput(k) directly after a successful openOutput(k) passes the handle
\* recorded for k to the backend's close exactly once and leaves the Session Closed.
C4_CloseReleasesHandle ==
  [][\A k \in Indices :
       (last.op = "openUmpOutput" /\ last.index = k /\ last.result = "ok"
        /\ Calls("closeUmpOutput", k))
         => /\ last'.nativeCloses = <<midiOutputs[k + 1].handle>>
            /\ session'[k] = "Closed"]_vars

\* C5: openOutput(k) with k at or beyond the number of cached output endpoints
\* throws INVALID_DEVICE, makes no native open call and leaves the catalogs, the
\* native handles and every Session as they were.
C5_OpenOutOfRangeFails ==
  [][\A k \in Indices :
       (k >= Len(midiOutputs) /\ Calls("openUmpOutput", k))
         => /\ last'.result = "INVALID_DEVICE"
            /\ last'.nativeOpens = <<>>
            /\ UNCHANGED <<midiOutputs, midiInputs, nativeHandles, session>>]_vars

\* C5's case: openUmpOutput was refused for the index just past a catalog that
\* holds an entry.
C5_Witness ==
  /\ last.op = "openUmpOutput"
  /\ Len(midiOutputs) > 0
  /\ last.index = Len(midiOutputs)
  /\ last.result = "INVALID_DEVICE"

C7_SendFailureReported ==
  (last.op = "sendUmp"
   /\ \E i \in 1 .. Len(last.driverSends) : DriverFailed(last.driverSends[i]))
    => Threw(last)

\* C8: every backend send invocation sendPacket makes carries exactly
\* wordCount(firstWord) words.
C8_WholePacketSent ==
  last.op = "sendUmp"
    => \A i \in 1 .. Len(last.driverSends) :
         Len(CarriedWords(last.driverSends[i])) = WordCount(last.word)

\* C9: the i-th entry of the array a refresh returns has index i, counting from 0.
C9_IndicesDense ==
  last.op \in {"getUmpOutputs", "getUmpInputs"}
    => \A i \in 1 .. Len(last.value) : last.value[i].index = i - 1

\* C10: a Session that is Open with a handle recorded when getUmpOutputs
\* re-enumerates is Open afterwards with the same handle recorded at its index,
\* so that a later closeOutput can release it.
C10_RefreshKeepsSessions ==
  [][\A k \in Indices :
       (session[k] = "Open" /\ k < Len(midiOutputs)
        /\ midiOutputs[k + 1].handle # Null
        /\ last'.op = "getUmpOutputs")
         => /\ session'[k] = "Open"
            /\ k < Len(midiOutputs')
            /\ midiOutputs'[k + 1].handle = midiOutputs[k + 1].handle]_vars

----------------------------------------------------------------------------
\* The native device handles that are open: HMIDIOUT and snd_rawmidi_t values
\* handed out and not closed.
DeviceHandlesOpen == {h \in Handles : nativeHandles[h] # 0}

\* C11: on the backends that open native device handles, the number of handles
\* opened and not yet closed equals the number of Sessions that are Open, in every
\* reachable state; so enumeration alone leaves no handle open and no handle is
\* dropped from the catalog without having been closed.
C11_OneHandlePerSession ==
  platform \in {"Windows", "Linux"}
    => Cardinality(DeviceHandlesOpen)
         = Cardinality({k \in Indices : session[k] = "Open"})

\* The backend's enumerate ran its per-device loop.
Enumerated == platform \in {"Windows", "Linux"} \/ (platform = "macOS" /\ initialized)

\* C12: a refresh returns without error, lists no entry whose native name or
\* capability lookup failed while listing every other device, and returns the
\* empty sequence when no device is present.
C12_EnumerationSkipsFailedEntries ==
  last.op \in {"getUmpOutputs", "getUmpInputs"}
    => LET os == IF last.op = "getUmpOutputs" THEN osOutputs ELSE osInputs
       IN /\ last.result = "ok"
          /\ Enumerated => Len(last.value) = Len(os) - Cardinality(last.lookupFailed)
          /\ os = <<>> => last.value = <<>>

\* The bytes a native send call put on the wire.
WrittenBytes(ns) ==
  CASE ns.fn = "snd_rawmidi_write" -> SubSeq(ns.data, 1, IF ns.ret < 0 THEN 0 ELSE ns.ret)
    [] ns.fn = "MIDISend" -> IF ns.ret = noErr THEN Flatten(ns.data) ELSE <<>>
    [] OTHER -> <<>>

\* C13: each sendPacket on an Open Session makes exactly one backend send
\* invocation, and what it writes to the handle is a whole number of 4-byte words,
\* so that the writes of any number of sends concatenate to whole words.
C13_SendsWriteWholeWords ==
  (/\ last.op = "sendUmp" /\ last.result = "ok" /\ last.index # NoArg
   /\ session[last.index] = "Open"
   /\ platform # "Unknown")
    => /\ Len(last.driverSends) = 1
       /\ \A i \in 1 .. Len(last.nativeSends) :
            Len(WrittenBytes(last.nativeSends[i])) % 4 = 0

\* The native write took fewer bytes than it was handed.
ShortWrite(ns) ==
  ns.fn = "snd_rawmidi_write" /\ ns.ret >= 0 /\ ns.ret < Len(ns.data)

\* C14: on Linux, a send whose native write was short either goes on to write
\* the remaining bytes, so that all bytes of the packet are written once and in
\* order, or reports an error to its caller.
C14_ShortWriteRecovered ==
  (/\ last.op = "sendUmp" /\ platform = "Linux"
   /\ \E i \in 1 .. Len(last.nativeSends) : ShortWrite(last.nativeSends[i]))
    => \/ Threw(last)
       \/ Flatten([i \in 1 .. Len(last.nativeSends) |-> WrittenBytes(last.nativeSends[i])])
            = BytesBE(last.word)

\* C15: at most one native client and one native output port exist, created and
\* not disposed, at any time.
C15_OneClientOnePort == macClients <= 1 /\ macPorts <= 1

\* C16: a sendSysEx on an Open Session with a payload of at least one byte, which
\* chunks to at least one packet, returns normally only if its packets were passed
\* to the backend's send.
C16_SysExAllPacketsSent ==
  (/\ last.op = "sendSysEx" /\ session[last.index] = "Open"
   /\ last.word >= 1 /\ last.word <= MaxPayload)
    => \/ Threw(last)
       \/ Len(last.driverSends) >= 1

\* C17: a SysEx payload one byte longer than maxPayload is refused with an error
\* and produces no packet.
C17_PayloadCapEnforced ==
  (last.op = "sendSysEx" /\ last.word > MaxPayload)
    => /\ Threw(last)
       /\ last.driverSends = <<>>

\* C18: the platform never changes, every getCapabilities returns the descriptor
\* of that platform with midi2Support and umpSupport set and maxPayload 65536,
\* whatever was called before, and the call changes no catalog, handle or Session.
C18_CapabilitiesImmutable ==
  [][/\ platform' = platform
     /\ last'.op = "getCapabilities"
          => /\ last'.value.platform = platform
             /\ last'.value.platform \in Platforms
             /\ last'.value.midi2Support = TRUE
             /\ last'.value.umpSupport = TRUE
             /\ last'.value.maxPayload = MaxPayload
             /\ UNCHANGED <<midiOutputs, midiInputs, nativeHandles, session>>]_vars

\* C18's case: getCapabilities has been called with a catalog listed and a
\* Session open.
C18_Witness ==
  /\ last.op = "getCapabilities"
  /\ Len(midiOutputs) > 0
  /\ \E k \in Indices : session[k] = "Open"

\* C20: an openOutput(k) made directly after a refresh opens the OS device whose
\* name the refresh reported as entry k.
C20_OpenOpensListedDevice ==
  [][\A k \in Indices :
       (/\ last.op = "getUmpOutputs"
        /\ Calls("openUmpOutput", k)
        /\ last'.result = "ok"
        /\ last'.nativeOpens # <<>>)
         => /\ k < Len(last.value)
            /\ nativeHandles'[last'.nativeOpens[1]] = last.value[k + 1].name]_vars

----------------------------------------------------------------------------
\* ALSAMIDIManager::sendUMP on its own, over every packet of 1 .. MaxCount words.

\* Words with distinct bytes in every position, below 2^31.
SerWords == {UmpWord(0, 16909060), NoteOn, UmpWord(7, 268369404), UmpWord(4, 9452544)}

PacketSeqs == UNION { [1 .. n -> SerWords] : n \in 1 .. MaxCount }

SerInit ==
  /\ Init
  /\ platform = "Linux"
  /\ osOutputs = <<>>
  /\ osInputs = <<>>

\* One call sendUMP(handle, packet, count) with count the length of packet.
SendUMPCall ==
  \E packet \in PacketSeqs, handle \in Handles :
  \E nativeRet \in WriteResults(4 * Len(packet)) :
    LET r == LinuxSendUMP(handle, packet, Len(packet), nativeRet)
    IN /\ last' = Event("sendUMP", NoArg, 0, "ok", r.ret,
                        <<DriverSend("sendUMP", handle, packet, Len(packet), r.ret)>>,
                        r.native, <<>>, <<>>, {})
       /\ UNCHANGED <<platform, osOutputs, osInputs, nativeHandles, macClients,
                      macPorts, midiOutputs, midiInputs, midiClient, outputPort,
                      initialized, crashed, session, scenB>>

SerSpec == SerInit /\ [][SendUMPCall]_vars

\* C19: for every packet of count words, sendUMP hands the native write one
\* buffer in one call; the buffer has 4 * count bytes, byte 4 * i + k is
\* (word[i] >> (24 - 8 * k)) & 0xFF, and reading each group of four bytes
\* big-endian gives word[i] back.
C19_BigEndianBuffer ==
  last.op = "sendUMP"
    => LET words == last.driverSends[1].data
           count == last.driverSends[1].count
       IN /\ Len(last.nativeSends) = 1
          /\ LET buffer == last.nativeSends[1].data
             IN /\ Len(buffer) = 4 * count
                /\ \A i \in 0 .. count - 1 :
                     /\ \A k \in 0 .. 3 :
                          buffer[4 * i + k + 1]
                            = (words[i + 1] \div (2 ^ (24 - 8 * k))) % 256
                     /\ WordBE(SubSeq(buffer, 4 * i + 1, 4 * i + 4)) = words[i + 1]

\* C19's case: sendUMP was called with two different words, one of them
\* 0x01020304.
C19_Witness ==
  /\ last.op = "sendUMP"
  /\ last.driverSends[1].count = 2
  /\ last.driverSends[1].data[1] = UmpWord(0, 16909060)
  /\ last.driverSends[1].data[2] = NoteOn
  /\ last.nativeSends[1].data = <<1, 2, 3, 4, 32, 144, 60, 64>>

====
